---- MODULE Spec2Model ----
(***************************************************************************)
(* Turn orchestration of the COB demo agent: the LangGraph state graph of  *)
(* langgraph_app.py (router, knowledge lookup, booking tool loop, handoff) *)
(* run over an in-memory per-thread checkpointer, the retrying             *)
(* GraphService.invoke of graph_service.py, the error classifier of        *)
(* utils/errors.py and the SQLite booking tools of booking_agent/tools.py. *)
(*                                                                         *)
(* Texts are sequences of one-character strings, so that strip(), lower()  *)
(* and substring search are computed and not assumed.                      *)
(***************************************************************************)
EXTENDS Integers, Sequences, FiniteSets, TLC

VARIABLES
    MAX_TOOL_STEPS,   \* langgraph_app.py:197, read once in build_app
    max_retries,      \* GraphService._max_retries
    checkpointer,     \* InMemorySaver: thread key -> latest saved State
    appointments,     \* the appointments table: slot key -> row
    req,              \* one in-flight GraphService.invoke per server worker
    budget,           \* what the environment may still do (bounds of the model)
    bk,               \* direct callers of core_book_slot (booking store alone)
    cls,              \* classify_exception applied to an error text (classifier alone)
    ui,               \* st.session_state of one browser session of streamlit_chat.py
    svc               \* _GRAPH_SERVICE_SINGLETON and the callers of get_graph_service

vars == <<MAX_TOOL_STEPS, max_retries, checkpointer, appointments, req, budget, bk, cls,
          ui, svc>>

----------------------------------------------------------------------------
(* Bounds of the model *)

\* invocations of GraphService.invoke started in one behaviour
MaxTurns == 2
\* collaborator failures injected in one behaviour
MaxFaults == 2
\* tool-call proposals the booking generator makes in one behaviour
MaxCalls == 1
\* the same three for the behaviours of SpecLoop
LoopTurns == 1
LoopFaults == 1
LoopCalls == 5
\* the same three for the behaviours of SpecRepeat
RepeatTurns == 2
RepeatFaults == 1
RepeatCalls == 4
\* invocations and tool-call proposals in one behaviour of SpecConc
ConcTurns == 2
ConcCalls == 1
\* calls of core_book_slot started in one behaviour of SpecBook
MaxBookCalls == 3
\* fragments of an error text in SpecClassify
MaxFragments == 3
\* invocations in one behaviour of SpecSteps, and tool-call proposals, which is
\* also the largest configured COB_MAX_TOOL_STEPS there
StepsTurns == 1
StepsCalls == 12
\* tool-call proposals in one behaviour of SpecStage
StageCalls == 1
\* turns, failures of a collaborator, tool-call proposals and proposals of two
\* tool calls in one behaviour of SpecTools
ToolsTurns == 1
ToolsFaults == 1
ToolsCalls == 3
ToolsPairs == 1
\* messages sent and New Chat clicks in one behaviour of SpecUi
MaxUiPosts == 3
MaxUiClicks == 2
\* calls of get_graph_service in one behaviour of SpecSingleton
MaxGetCalls == 8

(* Program constants *)

\* COB_MAX_TOOL_STEPS default
DEFAULT_MAX_TOOL_STEPS == 4
\* COB_MAX_RETRIES default
DEFAULT_MAX_RETRIES == 1
\* cfg["recursion_limit"]
recursion_limit == 20
\* router confidence threshold 0.55, in hundredths
CONFIDENCE_THRESHOLD == 55
\* repeat guard threshold of booking_should_continue
REPEAT_LIMIT == 2

Workers == {"w1", "w2"}
ThreadIds == {"default", "t2"}

----------------------------------------------------------------------------
(* Texts *)

Whitespace == {" ", "\t", "\n"}

RECURSIVE LStrip(_)
LStrip(s) == IF s # <<>> /\ Head(s) \in Whitespace THEN LStrip(Tail(s)) ELSE s

RECURSIVE RStrip(_)
RStrip(s) ==
    IF s # <<>> /\ s[Len(s)] \in Whitespace THEN RStrip(SubSeq(s, 1, Len(s) - 1)) ELSE s

\* str.strip()
Strip(s) == RStrip(LStrip(s))

UpperChars == <<"A","B","C","D","E","F","G","H","I","J","K","L","M",
                "N","O","P","Q","R","S","T","U","V","W","X","Y","Z">>
LowerChars == <<"a","b","c","d","e","f","g","h","i","j","k","l","m",
                "n","o","p","q","r","s","t","u","v","w","x","y","z">>

LowerChar(c) ==
    IF \E i \in 1..Len(UpperChars) : UpperChars[i] = c
    THEN LowerChars[CHOOSE i \in 1..Len(UpperChars) : UpperChars[i] = c]
    ELSE c

\* str.lower()
LowerNone(s) == s
Lower(s) == [i \in 1..Len(s) |-> LowerChar(s[i])]

\* sub in s
Contains(s, sub) ==
    \E i \in 0..(Len(s) - Len(sub)) : SubSeq(s, i + 1, i + Len(sub)) = sub

----------------------------------------------------------------------------
(* utils/errors.py *)

SIG_RESOURCE_EXHAUSTED ==
    <<"r","e","s","o","u","r","c","e"," ","e","x","h","a","u","s","t","e","d">>
SIG_QUOTA == <<"q","u","o","t","a">>
SIG_RATE_LIMIT == <<"r","a","t","e"," ","l","i","m","i","t">>
SIG_429 == <<"4","2","9">>
SIG_TIMEOUT == <<"t","i","m","e","o","u","t">>
SIG_TIMED_OUT == <<"t","i","m","e","d"," ","o","u","t">>
SIG_TEMP_UNAVAILABLE ==
    <<"t","e","m","p","o","r","a","r","i","l","y"," ",
      "u","n","a","v","a","i","l","a","b","l","e">>
SIG_503 == <<"5","0","3">>
SIG_INVALID == <<"i","n","v","a","l","i","d">>
SIG_BAD_REQUEST == <<"b","a","d"," ","r","e","q","u","e","s","t">>
SIG_400 == <<"4","0","0">>

\* the fixed message of each kind, abbreviated
MSG_QUOTA_EXCEEDED == <<"r","e","t","r","y"," ","l","a","t","e","r">>
MSG_TRANSIENT == <<"r","e","t","r","y">>
MSG_BAD_REQUEST == <<"r","e","j","e","c","t","e","d">>
MSG_INTERNAL == <<"u","n","e","x","p","e","c","t","e","d">>

ErrorInfo(kind, message, status_code, retryable, raw) ==
    [kind |-> kind, message |-> message, status_code |-> status_code,
     retryable |-> retryable, raw |-> raw]

classify_exception_bad_request_retryable(msg) ==
    LET low == Lower(msg) IN
    IF \/ Contains(low, SIG_RESOURCE_EXHAUSTED) \/ Contains(low, SIG_QUOTA)
       \/ Contains(low, SIG_RATE_LIMIT) \/ Contains(low, SIG_429)
    THEN ErrorInfo("MODEL_QUOTA_EXCEEDED", MSG_QUOTA_EXCEEDED, 429, TRUE, msg)
    ELSE IF \/ Contains(low, SIG_TIMEOUT) \/ Contains(low, SIG_TIMED_OUT)
            \/ Contains(low, SIG_TEMP_UNAVAILABLE) \/ Contains(low, SIG_503)
    THEN ErrorInfo("TRANSIENT_UPSTREAM_ERROR", MSG_TRANSIENT, 503, TRUE, msg)
    ELSE IF \/ Contains(low, SIG_INVALID) \/ Contains(low, SIG_BAD_REQUEST)
            \/ Contains(low, SIG_400)
    THEN ErrorInfo("UPSTREAM_BAD_REQUEST", MSG_BAD_REQUEST, 400, TRUE, msg)
    ELSE ErrorInfo("INTERNAL_ERROR", MSG_INTERNAL, 500, FALSE, msg)
classify_exception(msg) ==
    LET low == Lower(msg) IN
    IF \/ Contains(low, SIG_RESOURCE_EXHAUSTED) \/ Contains(low, SIG_QUOTA)
       \/ Contains(low, SIG_RATE_LIMIT) \/ Contains(low, SIG_429)
    THEN ErrorInfo("MODEL_QUOTA_EXCEEDED", MSG_QUOTA_EXCEEDED, 429, TRUE, msg)
    ELSE IF \/ Contains(low, SIG_TIMEOUT) \/ Contains(low, SIG_TIMED_OUT)
            \/ Contains(low, SIG_TEMP_UNAVAILABLE) \/ Contains(low, SIG_503)
    THEN ErrorInfo("TRANSIENT_UPSTREAM_ERROR", MSG_TRANSIENT, 503, TRUE, msg)
    ELSE IF \/ Contains(low, SIG_INVALID) \/ Contains(low, SIG_BAD_REQUEST)
            \/ Contains(low, SIG_400)
    THEN ErrorInfo("UPSTREAM_BAD_REQUEST", MSG_BAD_REQUEST, 400, FALSE, msg)
    ELSE ErrorInfo("INTERNAL_ERROR", MSG_INTERNAL, 500, FALSE, msg)

\* the classifier applied alone to str(exc). The texts are built from fragments:
\* each signal of the three rows in some letter case, and text without signal
FRAG_RESOURCE_EXHAUSTED ==
    <<"R","e","s","o","u","r","c","e"," ","E","x","h","a","u","s","t","e","d">>
FRAG_QUOTA == <<"Q","U","O","T","A">>
FRAG_RATE_LIMIT == <<"R","a","t","e"," ","L","i","m","i","t">>
FRAG_429 == <<"4","2","9">>
FRAG_TIMEOUT == <<"T","i","m","e","o","u","t">>
FRAG_TIMED_OUT == <<"t","i","m","e","d"," ","o","u","t">>
FRAG_TEMP_UNAVAILABLE ==
    <<"T","e","m","p","o","r","a","r","i","l","y"," ",
      "U","n","a","v","a","i","l","a","b","l","e">>
FRAG_503 == <<"5","0","3">>
FRAG_INVALID == <<"i","n","v","a","l","i","d">>
FRAG_INVALID_ARGUMENT_400 ==
    <<"I","n","v","a","l","i","d"," ","a","r","g","u","m","e","n","t",":"," ","4","0","0">>
FRAG_BAD_REQUEST == <<"B","a","d"," ","R","e","q","u","e","s","t">>
FRAG_400 == <<"4","0","0">>
FRAG_BOOM == <<"b","o","o","m">>
FRAG_SEP == <<":"," ">>

QuotaFragments == {FRAG_RESOURCE_EXHAUSTED, FRAG_QUOTA, FRAG_RATE_LIMIT, FRAG_429}
TransientFragments == {FRAG_TIMEOUT, FRAG_TIMED_OUT, FRAG_TEMP_UNAVAILABLE, FRAG_503}
BadRequestFragments == {FRAG_INVALID, FRAG_INVALID_ARGUMENT_400, FRAG_BAD_REQUEST, FRAG_400}
PlainFragments == {FRAG_BOOM, FRAG_SEP}
Fragments == QuotaFragments \cup TransientFragments \cup BadRequestFragments
             \cup PlainFragments

RECURSIVE Join(_)
Join(parts) == IF parts = <<>> THEN <<>> ELSE Head(parts) \o Join(Tail(parts))

NoInfo == ErrorInfo("", <<>>, 0, FALSE, <<>>)

\* pc: idle; raised (an exception with text str(exc) = text is to be classified);
\* classified (info is the result). parts records the fragments of the text.
IdleClassifier == [pc |-> "idle", parts |-> <<>>, text |-> <<>>, info |-> NoInfo]

Classify ==
    /\ cls.pc = "raised"
    /\ cls' = [cls EXCEPT !.pc = "classified", !.info = classify_exception(cls.text)]
    /\ UNCHANGED <<ui, svc, MAX_TOOL_STEPS, max_retries, checkpointer, appointments, req,
                   budget, bk>>

\* texts of the exceptions the generation collaborators raise in this model
ERR_QUOTA == <<"4","2","9"," ","Q","u","o","t","a">>
ERR_BOOM == <<"b","o","o","m">>
ErrTexts == {ERR_QUOTA, ERR_BOOM}
\* str(GraphRecursionError), abbreviated to its first words
ERR_RECURSION == <<"R","e","c","u","r","s","i","o","n"," ","l","i","m","i","t">>

----------------------------------------------------------------------------
(* langgraph_app.py: State, messages *)

TXT_EMPTY == <<>>
TXT_BLANK == <<" ">>
TXT_OK == <<"o","k">>
\* the fixed clarifying question of router_node, abbreviated
CLARIFY == <<"C","o","u","l","d"," ","y","o","u"," ","c","l","a","r","i","f","y","?">>

\* a message as a node or the caller builds it: id 0 is id = None
HumanMessage(content) ==
    [type |-> "human", content |-> content, tool_calls |-> <<>>, id |-> 0]
AIMessage(content, tool_calls) ==
    [type |-> "ai", content |-> content, tool_calls |-> tool_calls, id |-> 0]
ToolMessage(content) ==
    [type |-> "tool", content |-> content, tool_calls |-> <<>>, id |-> 0]

\* the reducer of the messages channel: a message without id gets a new one (a
\* uuid4, here the next unused number), a message whose id is in the channel
\* replaces the one with that id, any other message is appended
RECURSIVE add_messages_append(_, _)
add_messages_append(left, right) ==
    IF right = <<>> THEN left
    ELSE LET ids == {left[i].id : i \in 1..Len(left)}
             fresh == 1 + (CHOOSE n \in ids \cup {0} : \A k \in ids : k <= n)
         IN add_messages_append(Append(left, [Head(right) EXCEPT !.id = fresh]), Tail(right))
RECURSIVE add_messages(_, _)
add_messages(left, right) ==
    IF right = <<>> THEN left
    ELSE LET ids == {left[i].id : i \in 1..Len(left)}
             fresh == 1 + (CHOOSE n \in ids \cup {0} : \A k \in ids : k <= n)
             m == IF Head(right).id = 0 THEN [Head(right) EXCEPT !.id = fresh]
                  ELSE Head(right)
             merged == IF m.id \in ids
                       THEN [i \in 1..Len(left) |-> IF left[i].id = m.id THEN m ELSE left[i]]
                       ELSE Append(left, m)
         IN add_messages(merged, Tail(right))

\* the channels of State as state.get(...) reads them on a thread never used
EmptyState ==
    [messages |-> <<>>,
     route |-> "",
     rag_meta_ids |-> <<>>,
     handoff_required |-> FALSE,
     handoff_reason |-> TXT_EMPTY,
     booking_tool_steps |-> 0,
     last_tool_signature |-> <<>>,
     repeat_tool_count |-> 0]

\* a node's partial update written to the channels: messages goes through the
\* add_messages reducer, every other channel keeps the last value
ApplyUpdate(state, upd) ==
    [k \in DOMAIN state |->
        IF k \in DOMAIN upd
        THEN IF k = "messages" THEN add_messages(state.messages, upd.messages)
             ELSE upd[k]
        ELSE state[k]]

LastMessage(state) == state.messages[Len(state.messages)]

\* cfg["configurable"]["thread_id"]: the key of the checkpointer
ThreadKeyShared(thread_id) == "default"
ThreadKey(thread_id) == thread_id

\* the text a user of a conversation sends (each conversation has its own)
UserMessage(thread_id) == IF thread_id = "default" THEN <<"h","i">> ELSE <<"y","o">>

----------------------------------------------------------------------------
(* langgraph_app.py: router_node, route_after_router *)

Routes == {"general", "kb", "booking", "handoff"}
Replies == {TXT_EMPTY, TXT_BLANK, TXT_OK}
Confidences == {54, 55}
RouterDecisions == [route : Routes, reply : Replies, confidence : Confidences]

\* the confidence guard of router_node (lines 121-126)
ConfidenceGuardUnforced(decision) ==
    IF decision.confidence < CONFIDENCE_THRESHOLD /\ decision.route # "general"
    THEN IF Strip(decision.reply) = <<>>
         THEN [decision EXCEPT !.reply = CLARIFY]
         ELSE decision
    ELSE decision
ConfidenceGuard(decision) ==
    IF decision.confidence < CONFIDENCE_THRESHOLD /\ decision.route # "general"
    THEN IF Strip(decision.reply) = <<>>
         THEN [decision EXCEPT !.route = "general", !.reply = CLARIFY]
         ELSE [decision EXCEPT !.route = "general"]
    ELSE decision

\* the update router_node returns for a decision (lines 128-136)
RouterUpdate(decision) ==
    LET d == ConfidenceGuard(decision) IN
    IF d.route = "general"
    THEN [route |-> d.route, messages |-> <<AIMessage(d.reply, <<>>)>>]
    ELSE [route |-> d.route]

route_after_router_handoff_to_rag(state) ==
    IF state.route = "kb" THEN "rag_node"
    ELSE IF state.route = "booking" THEN "booking_llm_node"
    ELSE IF state.route = "handoff" THEN "rag_node"
    ELSE "END"
route_after_router(state) ==
    IF state.route = "kb" THEN "rag_node"
    ELSE IF state.route = "booking" THEN "booking_llm_node"
    ELSE IF state.route = "handoff" THEN "handoff_node"
    ELSE "END"

----------------------------------------------------------------------------
(* langgraph_app.py: rag_node *)

\* meta lists of the structured answer: ids of the MetaChunk entries
CITE_A == <<"k","1">>
CITE_B == <<"k","2">>
RagMetas == {<<>>, <<CITE_A, TXT_EMPTY, CITE_B>>}
\* how many documents retriever.invoke(query) may return (at most k = 3)
SearchHits == {0, 1}

\* [m.id for m in meta if m.id]
AllIds(meta) == meta
NonEmptyIds(meta) == SelectSeq(meta, LAMBDA id : id # <<>>)

RagUpdate(answer, meta) ==
    [messages |-> <<AIMessage(answer, <<>>)>>, rag_meta_ids |-> NonEmptyIds(meta)]

----------------------------------------------------------------------------
(* langgraph_app.py: handoff_node *)

REASON == <<"w","h","y">>
HandoffDecisions == [handoff_required : BOOLEAN, reason : {REASON}, reply : {TXT_OK}]

HandoffUpdateKeepsReason(decision) ==
    [handoff_required |-> decision.handoff_required,
     handoff_reason |-> decision.reason,
     messages |-> <<AIMessage(decision.reply, <<>>)>>]
HandoffUpdate(decision) ==
    [handoff_required |-> decision.handoff_required,
     handoff_reason |-> IF decision.handoff_required THEN decision.reason ELSE TXT_EMPTY,
     messages |-> <<AIMessage(decision.reply, <<>>)>>]

----------------------------------------------------------------------------
(* booking_agent/tools.py: the appointments table and the three tools *)

\* a row is keyed by (service, date, time); times are HHMM numbers
SLOT_1 == <<"cut", "d1", 1000>>
SLOT_2 == <<"cut", "d1", 930>>
SLOT_MISSING == <<"cut", "d1", 1700>>
SlotKeys == {SLOT_1, SLOT_2, SLOT_MISSING}
Customers == {<<"ann", "555">>, <<"bob", "777">>}

FreeRow == [status |-> "free", customer_name |-> "", phone |-> ""]
InitialAppointments == [k \in {SLOT_1, SLOT_2} |-> FreeRow]

\* rows the UPDATE of core_book_slot matches: WHERE ... AND status='free'
UpdateRowCountAny(db, key) == IF key \in DOMAIN db THEN 1 ELSE 0
UpdateRowCount(db, key) ==
    IF key \in DOMAIN db /\ db[key].status = "free" THEN 1 ELSE 0

\* the table after the UPDATE and commit of core_book_slot
UpdateBookedOverwrite(db, key, customer_name, phone) ==
    IF key \in DOMAIN db
    THEN [db EXCEPT ![key] =
            [status |-> "booked", customer_name |-> customer_name, phone |-> phone]]
    ELSE db
UpdateBooked(db, key, customer_name, phone) ==
    IF UpdateRowCount(db, key) = 1
    THEN [db EXCEPT ![key] =
            [status |-> "booked", customer_name |-> customer_name, phone |-> phone]]
    ELSE db

core_check_slot_availability(db, key) ==
    IF key \notin DOMAIN db THEN "not_found"
    ELSE IF db[key].status = "free" THEN "available" ELSE "booked"

\* the result of core_book_slot from the row count of its UPDATE and the table
\* its follow-up SELECT reads
BookResult(updated, db, key) ==
    IF updated = 1 THEN "success"
    ELSE IF core_check_slot_availability(db, key) = "booked" THEN "booked"
    ELSE "not_found"

RECURSIVE SortedTimes(_)
SortedTimes(ts) ==
    IF ts = {} THEN <<>>
    ELSE LET m == CHOOSE t \in ts : \A u \in ts : t <= u
         IN <<m>> \o SortedTimes(ts \ {m})

\* SELECT time ... WHERE service=? AND date=? AND status='free' ORDER BY time ASC
core_list_available_slots(db, service, date) ==
    SortedTimes({k[3] : k \in {x \in DOMAIN db :
        x[1] = service /\ x[2] = date /\ db[x].status = "free"}})

\* the texts the tools return, abbreviated
MSG_CONFIRMED == <<"c","o","n","f","i","r","m","e","d">>
MSG_BOOKED == <<"a","l","r","e","a","d","y"," ","b","o","o","k","e","d">>
MSG_NOT_FOUND == <<"d","o","e","s"," ","n","o","t"," ","e","x","i","s","t">>
MSG_AVAILABLE == <<"a","v","a","i","l","a","b","l","e">>
MSG_NO_TIMES == <<"N","o"," ","t","i","m","e","s">>
MSG_TIMES == <<"T","i","m","e","s">>

\* the @tool book_slot: the text for a result of core_book_slot
BookSlotText(result) ==
    IF result = "success" THEN MSG_CONFIRMED
    ELSE IF result = "booked" THEN MSG_BOOKED
    ELSE MSG_NOT_FOUND

CheckSlotText(status) ==
    IF status = "available" THEN MSG_AVAILABLE
    ELSE IF status = "booked" THEN MSG_BOOKED
    ELSE MSG_NOT_FOUND

ToolCall(name, args) == [name |-> name, args |-> args]
BookArgs(key, cust) ==
    [service |-> key[1], date |-> key[2], time |-> key[3],
     customer_name |-> cust[1], phone |-> cust[2]]
KeyOf(args) == <<args.service, args.date, args.time>>

\* one tool call run by ToolNode: the table after it and the text it returns
RunTool(db, tc) ==
    IF tc.name = "book_slot"
    THEN LET key == KeyOf(tc.args)
             updated == UpdateRowCount(db, key)
             db2 == UpdateBooked(db, key, tc.args.customer_name, tc.args.phone)
         IN [db |-> db2, text |-> BookSlotText(BookResult(updated, db2, key))]
    ELSE IF tc.name = "check_slot_availability"
    THEN [db |-> db, text |-> CheckSlotText(core_check_slot_availability(db, KeyOf(tc.args)))]
    ELSE [db |-> db,
          text |-> IF core_list_available_slots(db, tc.args.service, tc.args.date) = <<>>
                   THEN MSG_NO_TIMES ELSE MSG_TIMES]

\* ToolNode.invoke: every tool call of the last message, in order
RunToolsFirst(db, calls) ==
    IF calls = <<>> THEN [db |-> db, messages |-> <<>>]
    ELSE LET one == RunTool(db, Head(calls))
         IN [db |-> one.db, messages |-> <<ToolMessage(one.text)>>]
RECURSIVE RunTools(_, _)
RunTools(db, calls) ==
    IF calls = <<>> THEN [db |-> db, messages |-> <<>>]
    ELSE LET one == RunTool(db, Head(calls))
             rest == RunTools(one.db, Tail(calls))
         IN [db |-> rest.db, messages |-> <<ToolMessage(one.text)>> \o rest.messages]

----------------------------------------------------------------------------
(* langgraph_app.py: booking_llm_node, booking_should_continue, tools_wrapper *)

CALL_A == ToolCall("book_slot", BookArgs(SLOT_1, <<"ann", "555">>))
CALL_B == ToolCall("book_slot", BookArgs(SLOT_MISSING, <<"ann", "555">>))
\* what the booking generator may answer: no tool call, or one
Proposals == {<<>>, <<CALL_A>>, <<CALL_B>>}
\* or, while budget.pairs allows, two tool calls in one message
PairProposals == {<<CALL_B, CALL_A>>}

\* tc["name"] + "|" + json.dumps(args, sort_keys=True); "" is <<>>
Signature(tool_calls) ==
    IF tool_calls # <<>> THEN <<tool_calls[1].name, tool_calls[1].args>> ELSE <<>>

BookingLlmUpdate(state, ai) ==
    LET sig == Signature(ai.tool_calls)
    IN [messages |-> <<ai>>,
        last_tool_signature |-> sig,
        repeat_tool_count |-> IF sig # <<>> /\ sig = state.last_tool_signature
                              THEN state.repeat_tool_count + 1
                              ELSE 0]

booking_should_continue_off_by_one(state, max_tool_steps) ==
    IF state.booking_tool_steps > max_tool_steps THEN "end"
    ELSE IF LastMessage(state).type = "ai" /\ LastMessage(state).tool_calls # <<>>
    THEN IF state.repeat_tool_count >= REPEAT_LIMIT THEN "end" ELSE "continue"
    ELSE "end"
booking_should_continue(state, max_tool_steps) ==
    IF state.booking_tool_steps >= max_tool_steps THEN "end"
    ELSE IF LastMessage(state).type = "ai" /\ LastMessage(state).tool_calls # <<>>
    THEN IF state.repeat_tool_count >= REPEAT_LIMIT THEN "end" ELSE "continue"
    ELSE "end"

\* the conditional edge of booking_llm_node: {"continue": "tools", "end": END}
AfterBookingLlm(state, max_tool_steps) ==
    IF booking_should_continue(state, max_tool_steps) = "continue" THEN "tools" ELSE "END"

ToolsUpdate(state, tool_messages) ==
    [messages |-> tool_messages, booking_tool_steps |-> state.booking_tool_steps + 1]

----------------------------------------------------------------------------
(* graph_service.py: GraphService.invoke, one call at a time per server worker *)

NoResponse ==
    [reply |-> TXT_EMPTY, route |-> "", rag_meta_ids |-> <<>>,
     handoff_required |-> FALSE, handoff_reason |-> TXT_EMPTY]

\* routes/chat.py: what the endpoint answers
NoDetail == [error |-> "", message |-> TXT_EMPTY]
NoHttp == [status_code |-> 0, body |-> NoResponse, detail |-> NoDetail]

\* return ChatResponse(**out)
ChatOk(out) == [status_code |-> 200, body |-> out, detail |-> NoDetail]

\* raise HTTPException(status_code=info.status_code, detail={error, message})
ChatErrorAlways500(exc) ==
    LET info == classify_exception(exc)
    IN [status_code |-> 500, body |-> NoResponse,
        detail |-> [error |-> info.kind, message |-> info.message]]
ChatError(exc) ==
    LET info == classify_exception(exc)
    IN [status_code |-> info.status_code, body |-> NoResponse,
        detail |-> [error |-> info.kind, message |-> info.message]]

\* pc: idle; a node name (the next superstep of the graph run); except (an
\* exception left the run and is in the handler of invoke); done (invoke
\* returned resp); raised (invoke re-raised exc).
\* state and steps are the graph run's own channels and superstep count.
\* runs (graph runs started), fails (the retryable flag of each failed run),
\* tool_runs (Tool-Executor rounds) and guard (whether the confidence guard
\* applied to the router's decision, and to what reply) record what happened in
\* this invoke and are read by no action; so do path (the nodes the current graph
\* run has executed, in order), llm_calls (calls of a generation collaborator in
\* this invoke) and kb_context (the number of documents the retriever returned
\* in the current run, -1 when it was not asked).
\* failed is the node at which the exception in exc left the graph run.
\* http is what chat() answers: the response, or the HTTPException it raises.
IdleRequest ==
    [pc |-> "idle", thread_id |-> "default", attempt |-> 0, state |-> EmptyState,
     steps |-> 0, exc |-> TXT_EMPTY, resp |-> NoResponse,
     runs |-> 0, fails |-> <<>>, tool_runs |-> 0, guard |-> "none",
     path |-> <<>>, llm_calls |-> 0, kb_context |-> -1, http |-> NoHttp,
     failed |-> "", base |-> 0, meta |-> <<>>, ran |-> {}, ran_failed |-> {}]

NodePcs == {"router_node", "rag_node", "booking_llm_node", "tools", "handoff_node"}
\* the nodes that call a generation collaborator, which may raise
LlmPcs == {"router_node", "rag_node", "booking_llm_node", "handoff_node"}
RestPcs == {"idle", "done", "raised"}

\* lines 84-104: the response normalised from the final state
NormalizeFirstMessage(state) ==
    [reply |-> IF state.messages # <<>> THEN state.messages[1].content ELSE TXT_EMPTY,
     route |-> IF state.route = "" THEN "general" ELSE state.route,
     rag_meta_ids |-> state.rag_meta_ids,
     handoff_required |-> state.handoff_required,
     handoff_reason |-> state.handoff_reason]
Normalize(state) ==
    [reply |-> IF state.messages # <<>> THEN LastMessage(state).content ELSE TXT_EMPTY,
     route |-> IF state.route = "" THEN "general" ELSE state.route,
     rag_meta_ids |-> state.rag_meta_ids,
     handoff_required |-> state.handoff_required,
     handoff_reason |-> state.handoff_reason]

\* line 74: whether the handler re-raises
ReRaisesLate(info, attempt, retries) == ~info.retryable \/ attempt > retries
ReRaises(info, attempt, retries) == ~info.retryable \/ attempt >= retries

\* self._app.invoke({"messages": [user message]}, cfg): the run loads the thread's
\* checkpoint and writes the input to the messages channel alone
InputState(loaded, thread_id) ==
    ApplyUpdate(loaded, [messages |-> <<HumanMessage(UserMessage(thread_id))>>])

\* the node at which the graph run of a retry begins: a run with an input starts
\* at the entry point (set_entry_point), whatever node failed in the run before
RetryNodeResume(failed) == failed
RetryNode(failed) == "router_node"

\* a superstep of the graph run of worker w ended: the node's update is in the
\* channels and the checkpoint is saved under the thread's key; the run then goes
\* on to node next, stops at the recursion limit, or ends, and then invoke
\* returns the normalised response
Superstep(w, state2, next, fields) ==
    LET r == req[w]
        steps2 == r.steps + 1
        pc2 == IF next = "END" THEN "done"
               ELSE IF steps2 >= recursion_limit THEN "except"
               ELSE next
    IN /\ req' = [req EXCEPT ![w] =
                    [fields EXCEPT !.state = IF pc2 \in NodePcs THEN state2 ELSE EmptyState,
                                   !.steps = steps2,
                                   !.pc = pc2,
                                   !.exc = IF pc2 = "except" THEN ERR_RECURSION ELSE TXT_EMPTY,
                                   !.failed = IF pc2 = "except" THEN next ELSE "",
                                   !.resp = IF pc2 = "done" THEN Normalize(state2)
                                            ELSE NoResponse,
                                   !.http = IF pc2 = "done" THEN ChatOk(Normalize(state2))
                                            ELSE NoHttp,
                                   !.path = Append(r.path, r.pc)]]
       /\ checkpointer' = [checkpointer EXCEPT ![ThreadKey(r.thread_id)] = state2]

\* chat() calls svc.invoke(message, thread_id); attempt 0 starts the graph run.
\* base records how many messages the thread held when the call began.
Invoke(w, thread_id) ==
    LET state2 == InputState(checkpointer[ThreadKey(thread_id)], thread_id) IN
    /\ w \in budget.workers
    /\ thread_id \in budget.threads
    /\ req[w].pc \in RestPcs
    /\ budget.turns > 0
    /\ budget' = [budget EXCEPT !.turns = @ - 1]
    /\ req' = [req EXCEPT ![w] =
                 [IdleRequest EXCEPT !.pc = "router_node", !.thread_id = thread_id,
                                     !.state = state2, !.runs = 1,
                                     !.base = Len(checkpointer[ThreadKey(thread_id)].messages)]]
    /\ checkpointer' = [checkpointer EXCEPT ![ThreadKey(thread_id)] = state2]
    /\ UNCHANGED <<ui, svc, cls, MAX_TOOL_STEPS, max_retries, appointments, bk>>

RouterNode(w) ==
    LET r == req[w] IN
    /\ r.pc = "router_node"
    /\ IF LastMessage(r.state).type # "human"
       THEN LET state2 == ApplyUpdate(r.state, r.state)
            IN Superstep(w, state2, route_after_router(state2), r)
       ELSE \E decision \in RouterDecisions :
              LET state2 == ApplyUpdate(r.state, RouterUpdate(decision))
                  guard == IF decision.confidence < CONFIDENCE_THRESHOLD
                              /\ decision.route # "general"
                           THEN IF Strip(decision.reply) = <<>> THEN "blank" ELSE "text"
                           ELSE "none"
              IN Superstep(w, state2, route_after_router(state2),
                           [r EXCEPT !.guard = guard, !.llm_calls = @ + 1])
    /\ UNCHANGED <<ui, svc, cls, MAX_TOOL_STEPS, max_retries, appointments, budget, bk>>

\* rag_node, line 151: the retriever returns kb_context
RagRetrieve(w) ==
    LET r == req[w] IN
    /\ r.pc = "rag_node"
    /\ r.kb_context < 0
    /\ \E kb_context \in SearchHits :
          req' = [req EXCEPT ![w] = [r EXCEPT !.kb_context = kb_context]]
    /\ UNCHANGED <<ui, svc, cls, MAX_TOOL_STEPS, max_retries, checkpointer, appointments,
                   budget, bk>>

\* rag_node, lines 154-173: the generation call, whose structured response has
\* the answer and meta, and the update the node returns
RagNode(w) ==
    LET r == req[w] IN
    /\ r.pc = "rag_node"
    /\ r.kb_context >= 0
    /\ \E meta \in RagMetas :
          Superstep(w, ApplyUpdate(r.state, RagUpdate(TXT_OK, meta)), "END",
                    [r EXCEPT !.meta = meta, !.llm_calls = @ + 1])
    /\ UNCHANGED <<ui, svc, cls, MAX_TOOL_STEPS, max_retries, appointments, budget, bk>>

BookingLlmNode(w) ==
    LET r == req[w] IN
    /\ r.pc = "booking_llm_node"
    /\ \E tool_calls \in Proposals \cup PairProposals :
          LET ai == AIMessage(IF tool_calls = <<>> THEN TXT_OK ELSE TXT_EMPTY, tool_calls)
              state2 == ApplyUpdate(r.state, BookingLlmUpdate(r.state, ai))
          IN /\ tool_calls # <<>> => budget.calls > 0
             /\ tool_calls \in PairProposals => budget.pairs > 0
             /\ budget' = [budget EXCEPT !.calls = IF tool_calls # <<>> THEN @ - 1 ELSE @,
                                         !.pairs = IF tool_calls \in PairProposals
                                                   THEN @ - 1 ELSE @]
             /\ Superstep(w, state2, AfterBookingLlm(state2, MAX_TOOL_STEPS),
                          [r EXCEPT !.llm_calls = @ + 1])
    /\ UNCHANGED <<ui, svc, cls, MAX_TOOL_STEPS, max_retries, appointments, bk>>

\* ran records the tool calls executed in this graph run, ran_failed those
\* executed in the failed runs of this invoke
ToolsNode(w) ==
    LET r == req[w]
        calls == LastMessage(r.state).tool_calls
        out == RunTools(appointments, calls)
    IN /\ r.pc = "tools"
       /\ appointments' = out.db
       /\ Superstep(w, ApplyUpdate(r.state, ToolsUpdate(r.state, out.messages)),
                    "booking_llm_node",
                    [r EXCEPT !.tool_runs = @ + 1,
                              !.ran = @ \cup {calls[i] : i \in 1..Len(calls)}])
       /\ UNCHANGED <<ui, svc, cls, MAX_TOOL_STEPS, max_retries, budget, bk>>

HandoffNode(w) ==
    LET r == req[w] IN
    /\ r.pc = "handoff_node"
    /\ IF LastMessage(r.state).type # "human"
       THEN Superstep(w, ApplyUpdate(r.state, r.state), "END", r)
       ELSE \E decision \in HandoffDecisions :
              Superstep(w, ApplyUpdate(r.state, HandoffUpdate(decision)), "END",
                        [r EXCEPT !.llm_calls = @ + 1])
    /\ UNCHANGED <<ui, svc, cls, MAX_TOOL_STEPS, max_retries, appointments, budget, bk>>

\* a generation collaborator raises inside a node (router_node and handoff_node
\* call theirs only for a user message): the node writes nothing, the
\* exception leaves the run and reaches the handler of invoke
NodeRaises(w) ==
    LET r == req[w] IN
    /\ r.pc \in LlmPcs
    /\ r.pc \in {"router_node", "handoff_node"} => LastMessage(r.state).type = "human"
    /\ budget.faults > 0
    /\ \E text \in ErrTexts :
          req' = [req EXCEPT ![w] = [r EXCEPT !.pc = "except", !.exc = text,
                                              !.failed = r.pc,
                                              !.state = EmptyState,
                                              !.llm_calls =
                                                  IF r.pc = "rag_node" /\ r.kb_context < 0
                                                  THEN @ ELSE @ + 1]]
    /\ budget' = [budget EXCEPT !.faults = @ - 1]
    /\ UNCHANGED <<ui, svc, cls, MAX_TOOL_STEPS, max_retries, checkpointer, appointments, bk>>

\* lines 70-77: classify, then re-raise, or back off and run the graph again with
\* the same input
HandleException(w) ==
    LET r == req[w]
        info == classify_exception(r.exc)
        state2 == InputState(checkpointer[ThreadKey(r.thread_id)], r.thread_id)
    IN /\ r.pc = "except"
       /\ IF ReRaises(info, r.attempt, max_retries)
          THEN /\ req' = [req EXCEPT ![w] =
                            [r EXCEPT !.pc = "raised", !.fails = Append(@, info.retryable),
                                      !.http = ChatError(r.exc)]]
               /\ UNCHANGED checkpointer
          ELSE /\ req' = [req EXCEPT ![w] =
                            [r EXCEPT !.pc = RetryNode(r.failed), !.attempt = @ + 1,
                                      !.failed = "",
                                      !.state = state2, !.steps = 0, !.exc = TXT_EMPTY,
                                      !.runs = @ + 1, !.guard = "none",
                                      !.path = <<>>, !.kb_context = -1,
                                      !.meta = <<>>,
                                      !.ran_failed = @ \cup r.ran, !.ran = {},
                                      !.fails = Append(@, info.retryable)]]
               /\ checkpointer' = [checkpointer EXCEPT ![ThreadKey(r.thread_id)] = state2]
       /\ UNCHANGED <<ui, svc, cls, MAX_TOOL_STEPS, max_retries, appointments, budget, bk>>

----------------------------------------------------------------------------
(* booking_agent/tools.py: core_book_slot called directly, statement by statement *)

\* pc: idle, update (before the UPDATE), check (the UPDATE matched no row; before
\* the SELECT of core_check_slot_availability), done (result returned).
\* saw_free records whether the slot was a free row when the call started.
IdleBooker == [pc |-> "idle", key |-> SLOT_1, cust |-> <<"ann", "555">>,
               updated |-> 0, result |-> "", saw_free |-> FALSE]
Bookers == {"b1", "b2"}

BookCall(b, key, cust) ==
    /\ bk[b].pc \in {"idle", "done"}
    /\ budget.book_calls > 0
    /\ budget' = [budget EXCEPT !.book_calls = @ - 1]
    /\ bk' = [bk EXCEPT ![b] =
                [pc |-> "update", key |-> key, cust |-> cust, updated |-> 0, result |-> "",
                 saw_free |-> core_check_slot_availability(appointments, key) = "available"]]
    /\ UNCHANGED <<ui, svc, cls, MAX_TOOL_STEPS, max_retries, checkpointer, appointments, req>>

\* lines 73-90: the UPDATE, the commit, the row count, and success when it is 1
BookUpdate(b) ==
    LET c == bk[b]
        updated == UpdateRowCount(appointments, c.key)
    IN /\ c.pc = "update"
       /\ appointments' = UpdateBooked(appointments, c.key, c.cust[1], c.cust[2])
       /\ bk' = [bk EXCEPT ![b] =
                   [c EXCEPT !.updated = updated,
                             !.pc = IF updated = 1 THEN "done" ELSE "check",
                             !.result = IF updated = 1 THEN BookResult(updated, appointments, c.key)
                                        ELSE ""]]
       /\ UNCHANGED <<ui, svc, cls, MAX_TOOL_STEPS, max_retries, checkpointer, req, budget>>

\* lines 91-95: tell booked from not_found with a second statement
BookCheck(b) ==
    LET c == bk[b] IN
    /\ c.pc = "check"
    /\ bk' = [bk EXCEPT ![b] =
                [c EXCEPT !.pc = "done", !.result = BookResult(c.updated, appointments, c.key)]]
    /\ UNCHANGED <<ui, svc, cls, MAX_TOOL_STEPS, max_retries, checkpointer, appointments, req, budget>>

----------------------------------------------------------------------------
(* streamlit_chat.py: one browser session; the backend is the collaborator that
   answers POST /api/chat *)

\* str(random.randint(100000, 999999)): three of the 900000 values
UiThreadIds == {"100000", "555555", "999999"}

NO_REPLY == <<"_","(","n","o"," ","r","e","p","l","y",")","_">>
ERR_BUBBLE == <<"e","r","r","o","r">>

\* thread_id, messages and handoff_locked are the keys of st.session_state after
\* ensure_session_state. posts (messages sent to the backend) and clicks (New
\* Chat clicks) count what the user did; flagged is the set of thread ids for
\* which a response with handoff_required = true was received. The three are
\* read by no action but the bounds.
IdleSession ==
    [thread_id |-> "", messages |-> <<>>, handoff_locked |-> FALSE,
     posts |-> 0, clicks |-> 0, flagged |-> {}]

\* what call_backend gives: the JSON of a 2xx response, or an exception
BackendAnswers ==
    [ok : {TRUE}, reply : {TXT_EMPTY, TXT_BLANK, TXT_OK}, handoff_required : BOOLEAN]
    \cup [ok : {FALSE}, reply : {TXT_EMPTY}, handoff_required : {FALSE}]

\* lines 149-153: the New Chat button
NewChat ==
    /\ ui.thread_id # ""
    /\ ui.clicks < MaxUiClicks
    /\ \E thread_id \in UiThreadIds :
          ui' = [ui EXCEPT !.thread_id = thread_id, !.messages = <<>>,
                           !.handoff_locked = FALSE, !.clicks = @ + 1]
    /\ UNCHANGED <<svc, cls, MAX_TOOL_STEPS, max_retries, checkpointer, appointments, req,
                   budget, bk>>

\* lines 174-211: the chat input is reached only when the session is not locked;
\* a submitted text is shown, sent to the backend, and the answer is shown
ChatInput ==
    /\ ui.thread_id # ""
    /\ ~ui.handoff_locked
    /\ ui.posts < MaxUiPosts
    /\ \E data \in BackendAnswers :
          LET user == [role |-> "user", content |-> TXT_OK, flag |-> FALSE]
              reply == Strip(data.reply)
              bubble == IF data.ok
                        THEN [role |-> "assistant",
                              content |-> IF reply # <<>> THEN reply ELSE NO_REPLY,
                              flag |-> data.handoff_required]
                        ELSE [role |-> "assistant", content |-> ERR_BUBBLE, flag |-> FALSE]
          IN ui' = [ui EXCEPT !.messages = @ \o <<user, bubble>>,
                              !.handoff_locked = @ \/ (data.ok /\ data.handoff_required),
                              !.posts = @ + 1,
                              !.flagged = IF data.ok /\ data.handoff_required
                                          THEN @ \cup {ui.thread_id} ELSE @]
    /\ UNCHANGED <<svc, cls, MAX_TOOL_STEPS, max_retries, checkpointer, appointments, req,
                   budget, bk>>

----------------------------------------------------------------------------
(* graph_service.py: get_graph_service, called by the dependency of chat() on
   the server's worker threads *)

\* singleton is _GRAPH_SERVICE_SINGLETON: 0 is None, n is the n-th GraphService
\* constructed (created counts them). Of a caller: pc is idle, construct (the
\* test of line 24 found None), return (before line 26) or done (got was
\* returned); calls counts the calls started.
NoService ==
    [singleton |-> 0, created |-> 0, calls |-> 0,
     caller |-> [w \in Workers |-> [pc |-> "idle", got |-> 0]]]

\* line 24: if _GRAPH_SERVICE_SINGLETON is None
GetGraphService(w) ==
    /\ svc.caller[w].pc \in {"idle", "done"}
    /\ svc.calls < MaxGetCalls
    /\ svc' = [svc EXCEPT !.calls = @ + 1,
                          !.caller[w] = [pc |-> IF svc.singleton = 0 THEN "construct"
                                                ELSE "return",
                                         got |-> 0]]
    /\ UNCHANGED <<ui, cls, MAX_TOOL_STEPS, max_retries, checkpointer, appointments, req,
                   budget, bk>>

\* line 25: _GRAPH_SERVICE_SINGLETON = GraphService()
ConstructService(w) ==
    /\ svc.caller[w].pc = "construct"
    /\ svc' = [svc EXCEPT !.created = @ + 1, !.singleton = svc.created + 1,
                          !.caller[w].pc = "return"]
    /\ UNCHANGED <<ui, cls, MAX_TOOL_STEPS, max_retries, checkpointer, appointments, req,
                   budget, bk>>

\* line 26: return _GRAPH_SERVICE_SINGLETON
ReturnService(w) ==
    /\ svc.caller[w].pc = "return"
    /\ svc' = [svc EXCEPT !.caller[w] = [pc |-> "done", got |-> svc.singleton]]
    /\ UNCHANGED <<ui, cls, MAX_TOOL_STEPS, max_retries, checkpointer, appointments, req,
                   budget, bk>>

----------------------------------------------------------------------------
(* Specifications *)

Start(turns, faults, calls, workers, threads, book_calls) ==
    /\ MAX_TOOL_STEPS = DEFAULT_MAX_TOOL_STEPS
    /\ max_retries = DEFAULT_MAX_RETRIES
    /\ checkpointer = [k \in ThreadIds |-> EmptyState]
    /\ appointments = InitialAppointments
    /\ req = [w \in Workers |-> IdleRequest]
    /\ budget = [turns |-> turns, faults |-> faults, calls |-> calls,
                 workers |-> workers, threads |-> threads, book_calls |-> book_calls, pairs |-> 0]
    /\ bk = [b \in Bookers |-> IdleBooker]
    /\ cls = IdleClassifier
    /\ ui = IdleSession
    /\ svc = NoService

\* the steps of the graph run of worker w
RunStep(w) ==
    \/ RouterNode(w)
    \/ RagRetrieve(w)
    \/ RagNode(w)
    \/ BookingLlmNode(w)
    \/ ToolsNode(w)
    \/ HandoffNode(w)

\* Spec: one server worker, one conversation, turns one after the other, with
\* failing collaborators
Init == Start(MaxTurns, MaxFaults, MaxCalls, {"w1"}, {"default"}, 0)

Next ==
    \E w \in Workers :
        \/ \E thread_id \in ThreadIds : Invoke(w, thread_id)
        \/ RouterNode(w)
        \/ RagRetrieve(w)
        \/ RagNode(w)
        \/ BookingLlmNode(w)
        \/ ToolsNode(w)
        \/ HandoffNode(w)
        \/ NodeRaises(w)
        \/ HandleException(w)

Spec == Init /\ [][Next]_vars

\* SpecLoop: the same, with room for the booking loop to run to its bounds
InitLoop == Start(LoopTurns, LoopFaults, LoopCalls, {"w1"}, {"default"}, 0)

SpecLoop == InitLoop /\ [][Next]_vars

\* SpecRepeat: the same, with room for a booking turn after a booking turn
InitRepeat == Start(RepeatTurns, RepeatFaults, RepeatCalls, {"w1"}, {"default"}, 0)

SpecRepeat == InitRepeat /\ [][Next]_vars

\* SpecTools: one booking turn in which the generator may ask for two tool
\* calls in one message
InitTools ==
    /\ MAX_TOOL_STEPS = DEFAULT_MAX_TOOL_STEPS
    /\ max_retries = DEFAULT_MAX_RETRIES
    /\ checkpointer = [k \in ThreadIds |-> EmptyState]
    /\ appointments = InitialAppointments
    /\ req = [w \in Workers |-> IdleRequest]
    /\ budget = [turns |-> ToolsTurns, faults |-> ToolsFaults, calls |-> ToolsCalls,
                 workers |-> {"w1"}, threads |-> {"default"}, book_calls |-> 0,
                 pairs |-> ToolsPairs]
    /\ bk = [b \in Bookers |-> IdleBooker]
    /\ cls = IdleClassifier
    /\ ui = IdleSession
    /\ svc = NoService

SpecTools == InitTools /\ [][Next]_vars

\* SpecConc: two server workers and two conversations, requests in any
\* interleaving, collaborators that do not fail
InitConc == Start(ConcTurns, 0, ConcCalls, Workers, ThreadIds, 0)

NextConc ==
    \E w \in Workers :
        \/ \E thread_id \in ThreadIds : Invoke(w, thread_id)
        \/ RouterNode(w)
        \/ RagRetrieve(w)
        \/ RagNode(w)
        \/ BookingLlmNode(w)
        \/ ToolsNode(w)
        \/ HandoffNode(w)

SpecConc == InitConc /\ [][NextConc]_vars

\* SpecBook: the booking store alone, two callers of core_book_slot
InitBook == Start(0, 0, 0, {}, {}, MaxBookCalls)

NextBook ==
    \E b \in Bookers :
        \/ \E key \in SlotKeys, cust \in Customers : BookCall(b, key, cust)
        \/ BookUpdate(b)
        \/ BookCheck(b)

SpecBook == InitBook /\ [][NextBook]_vars

\* SpecSteps: one conversation, collaborators that do not fail, and
\* COB_MAX_TOOL_STEPS configured to 1, to its default or to StepsCalls
ToolStepConfigs == {1, DEFAULT_MAX_TOOL_STEPS, StepsCalls}

InitSteps ==
    /\ MAX_TOOL_STEPS \in ToolStepConfigs
    /\ max_retries = DEFAULT_MAX_RETRIES
    /\ checkpointer = [k \in ThreadIds |-> EmptyState]
    /\ appointments = InitialAppointments
    /\ req = [w \in Workers |-> IdleRequest]
    /\ budget = [turns |-> StepsTurns, faults |-> 0, calls |-> StepsCalls,
                 workers |-> {"w1"}, threads |-> {"default"}, book_calls |-> 0, pairs |-> 0]
    /\ bk = [b \in Bookers |-> IdleBooker]
    /\ cls = IdleClassifier
    /\ ui = IdleSession
    /\ svc = NoService

NextSteps ==
    \E w \in Workers :
        \/ \E thread_id \in ThreadIds : Invoke(w, thread_id)
        \/ RouterNode(w)
        \/ RagRetrieve(w)
        \/ RagNode(w)
        \/ BookingLlmNode(w)
        \/ ToolsNode(w)
        \/ HandoffNode(w)
        \/ HandleException(w)

SpecSteps == InitSteps /\ [][NextSteps]_vars

\* SpecStage: router_node or handoff_node applied to a state of State as a
\* conversation holds it during or after a turn, and the run that follows. The
\* message lists are those the graph builds: the user message alone, followed by
\* an answer, or by rounds of the booking loop
StageMessages ==
    LET human == HumanMessage(UserMessage("default"))
        answer == AIMessage(TXT_OK, <<>>)
        proposal == AIMessage(TXT_EMPTY, <<CALL_B>>)
        result == ToolMessage(MSG_NOT_FOUND)
    IN {<<human>>, <<human, answer>>, <<human, proposal>>,
        <<human, proposal, result>>, <<human, proposal, result, answer>>,
        <<human, proposal, result, proposal>>}

StageStates ==
    {[EmptyState EXCEPT !.messages = add_messages(<<>>, msgs),
                        !.route = route,
                        !.rag_meta_ids = ids,
                        !.handoff_required = handoff,
                        !.handoff_reason = IF handoff THEN REASON ELSE TXT_EMPTY] :
        msgs \in StageMessages, route \in Routes,
        ids \in {<<>>, <<CITE_A>>}, handoff \in BOOLEAN}

InitStage ==
    /\ MAX_TOOL_STEPS = DEFAULT_MAX_TOOL_STEPS
    /\ max_retries = DEFAULT_MAX_RETRIES
    /\ appointments = InitialAppointments
    /\ budget = [turns |-> 0, faults |-> 0, calls |-> StageCalls,
                 workers |-> {"w1"}, threads |-> {"default"}, book_calls |-> 0, pairs |-> 0]
    /\ bk = [b \in Bookers |-> IdleBooker]
    /\ cls = IdleClassifier
    /\ ui = IdleSession
    /\ svc = NoService
    /\ \E state \in StageStates, pc \in {"router_node", "handoff_node"} :
          /\ checkpointer = [k \in ThreadIds |->
                                IF k = ThreadKey("default") THEN state ELSE EmptyState]
          /\ req = [w \in Workers |->
                       IF w = "w1"
                       THEN [IdleRequest EXCEPT !.pc = pc, !.state = state, !.runs = 1]
                       ELSE IdleRequest]

NextStage ==
    \E w \in Workers :
        \/ RouterNode(w)
        \/ RagRetrieve(w)
        \/ RagNode(w)
        \/ BookingLlmNode(w)
        \/ ToolsNode(w)
        \/ HandoffNode(w)

SpecStage == InitStage /\ [][NextStage]_vars

\* SpecUi: one browser session of the chat UI
InitUi ==
    /\ MAX_TOOL_STEPS = DEFAULT_MAX_TOOL_STEPS
    /\ max_retries = DEFAULT_MAX_RETRIES
    /\ checkpointer = [k \in ThreadIds |-> EmptyState]
    /\ appointments = InitialAppointments
    /\ req = [w \in Workers |-> IdleRequest]
    /\ budget = [turns |-> 0, faults |-> 0, calls |-> 0,
                 workers |-> {}, threads |-> {}, book_calls |-> 0, pairs |-> 0]
    /\ bk = [b \in Bookers |-> IdleBooker]
    /\ cls = IdleClassifier
    /\ svc = NoService
    /\ \E thread_id \in UiThreadIds : ui = [IdleSession EXCEPT !.thread_id = thread_id]

NextUi == NewChat \/ ChatInput

SpecUi == InitUi /\ [][NextUi]_vars

\* SpecSingleton: concurrent requests, each resolving its GraphService dependency
InitSingleton ==
    /\ MAX_TOOL_STEPS = DEFAULT_MAX_TOOL_STEPS
    /\ max_retries = DEFAULT_MAX_RETRIES
    /\ checkpointer = [k \in ThreadIds |-> EmptyState]
    /\ appointments = InitialAppointments
    /\ req = [w \in Workers |-> IdleRequest]
    /\ budget = [turns |-> 0, faults |-> 0, calls |-> 0,
                 workers |-> {}, threads |-> {}, book_calls |-> 0, pairs |-> 0]
    /\ bk = [b \in Bookers |-> IdleBooker]
    /\ cls = IdleClassifier
    /\ ui = IdleSession
    /\ svc = NoService

NextSingleton ==
    \E w \in Workers :
        \/ GetGraphService(w)
        \/ ConstructService(w)
        \/ ReturnService(w)

SpecSingleton == InitSingleton /\ [][NextSingleton]_vars

\* SpecClassify: the error classifier alone, applied to every text of at most
\* MaxFragments fragments
InitClassify ==
    /\ MAX_TOOL_STEPS = DEFAULT_MAX_TOOL_STEPS
    /\ max_retries = DEFAULT_MAX_RETRIES
    /\ checkpointer = [k \in ThreadIds |-> EmptyState]
    /\ appointments = InitialAppointments
    /\ req = [w \in Workers |-> IdleRequest]
    /\ budget = [turns |-> 0, faults |-> 0, calls |-> 0,
                 workers |-> {}, threads |-> {}, book_calls |-> 0, pairs |-> 0]
    /\ bk = [b \in Bookers |-> IdleBooker]
    /\ ui = IdleSession
    /\ svc = NoService
    /\ \E n \in 0..MaxFragments : \E parts \in [1..n -> Fragments] :
          cls = [pc |-> "raised", parts |-> parts, text |-> Join(parts), info |-> NoInfo]

NextClassify == Classify

SpecClassify == InitClassify /\ [][NextClassify]_vars

----------------------------------------------------------------------------
(* Properties *)

IsHuman(m) == m.type = "human"
IsAI(m) == m.type = "ai"
IsTool(m) == m.type = "tool"

\* the messages of the latest turn: those after the last user message
TurnMessages(state) ==
    LET msgs == state.messages
        humans == {i \in 1..Len(msgs) : IsHuman(msgs[i])}
        last == IF humans = {} THEN 0 ELSE CHOOSE i \in humans : \A j \in humans : j <= i
    IN SubSeq(msgs, last + 1, Len(msgs))

\* the state last saved for the conversation of worker w
Saved(w) == checkpointer[ThreadKey(req[w].thread_id)]

\* C1: in one invoke the Tool-Executor runs at most MAX_TOOL_STEPS times, a graph
\* run takes at most 2 * MAX_TOOL_STEPS + 2 supersteps (the router, then generator
\* and executor in turn, then the last generator step), and the booking loop can
\* always take its next step: the turn reaches a terminal state
C1_BookingLoopBounded ==
    \A w \in Workers :
        /\ req[w].tool_runs <= MAX_TOOL_STEPS
        /\ req[w].steps <= 2 * MAX_TOOL_STEPS + 2
        /\ req[w].pc \in {"booking_llm_node", "tools"} => ENABLED RunStep(w)

C1_Witness ==
    \E w \in Workers :
        /\ req[w].pc = "done"
        /\ req[w].resp.route = "booking"
        /\ req[w].tool_runs = MAX_TOOL_STEPS

\* C2: (a) in a turn the Tool-Executor never runs for the third or a later one of
\* consecutive proposals with the same signature; (b) a booking turn that
\* finished in its first graph run, in which every proposal was the same
\* book_slot call and every result was not_found, ended with
\* repeat_tool_count = 2 and booking_tool_steps = 2, with MAX_TOOL_STEPS = 4
C2_RepeatGuardEndsAtSecondRepeat ==
    \A w \in Workers :
        LET st == Saved(w)
            turn == TurnMessages(st)
            props == SelectSeq(turn, IsAI)
            results == SelectSeq(turn, IsTool)
        IN /\ \A i \in 3..Len(props) :
                 ( /\ props[i].tool_calls # <<>>
                   /\ props[i - 1].tool_calls = props[i].tool_calls
                   /\ props[i - 2].tool_calls = props[i].tool_calls )
                 => (i = Len(props) /\ IsAI(turn[Len(turn)]))
           /\ ( /\ req[w].pc = "done"
                /\ req[w].runs = 1
                /\ st.route = "booking"
                /\ MAX_TOOL_STEPS = 4
                /\ props # <<>>
                /\ results # <<>>
                /\ \A i \in 1..Len(props) :
                      /\ props[i].tool_calls # <<>>
                      /\ props[i].tool_calls = props[1].tool_calls
                      /\ props[i].tool_calls[1].name = "book_slot"
                /\ \A i \in 1..Len(results) : results[i].content = MSG_NOT_FOUND )
              => (st.repeat_tool_count = 2 /\ st.booking_tool_steps = 2)

\* C3: booking_tool_steps and repeat_tool_count are never negative, and are 0
\* when the first graph run of an invoke starts
C3_CountersStartAtZero ==
    \A w \in Workers :
        /\ req[w].state.booking_tool_steps >= 0
        /\ req[w].state.repeat_tool_count >= 0
        /\ (req[w].pc = "router_node" /\ req[w].attempt = 0 /\ req[w].steps = 0)
              => /\ req[w].state.booking_tool_steps = 0
                 /\ req[w].state.repeat_tool_count = 0

\* C4: once handoff_required is true in a conversation's state, no step sets it
\* back to false
C4_HandoffMonotonic ==
    [][\A k \in ThreadIds :
          checkpointer[k].handoff_required => checkpointer'[k].handoff_required]_vars

\* C5: a response whose route is not kb carries no citations
C5_CitationsOfThisTurn ==
    \A w \in Workers :
        (req[w].pc = "done" /\ req[w].resp.route # "kb") => req[w].resp.rag_meta_ids = <<>>

\* C6: when the router's decision had confidence below the threshold and a route
\* other than general, the run ended after the router alone (one superstep), the
\* route is general, and the last message is the assistant's reply, which is not
\* blank and is the clarifying question when the decision's reply was blank
C6_ConfidenceGuard ==
    \A w \in Workers :
        req[w].guard # "none" =>
            /\ req[w].pc = "done"
            /\ req[w].steps = 1
            /\ req[w].resp.route = "general"
            /\ Saved(w).route = "general"
            /\ IsAI(LastMessage(Saved(w)))
            /\ LastMessage(Saved(w)).content = req[w].resp.reply
            /\ LastMessage(Saved(w)).tool_calls = <<>>
            /\ Strip(req[w].resp.reply) # <<>>
            /\ req[w].guard = "blank" => req[w].resp.reply = CLARIFY

C6_Witness ==
    \E w \in Workers : req[w].guard = "blank" /\ req[w].pc = "done"

\* C7: two calls of core_book_slot for the same slot that both started while the
\* slot was a free row: when both have returned, one returned success and the
\* other booked, and the row is booked with the customer of the successful call
C7_OneBookingWins ==
    \A b1, b2 \in Bookers :
        ( /\ b1 # b2
          /\ bk[b1].pc = "done" /\ bk[b2].pc = "done"
          /\ bk[b1].key = bk[b2].key
          /\ bk[b1].saw_free /\ bk[b2].saw_free )
        => /\ {bk[b1].result, bk[b2].result} = {"success", "booked"}
           /\ \A b \in {b1, b2} :
                 bk[b].result = "success" =>
                    appointments[bk[b].key] =
                        [status |-> "booked", customer_name |-> bk[b].cust[1],
                         phone |-> bk[b].cust[2]]

C7_Witness ==
    /\ bk["b1"].pc = "done" /\ bk["b2"].pc = "done"
    /\ bk["b1"].key = bk["b2"].key
    /\ bk["b1"].saw_free /\ bk["b2"].saw_free
    /\ bk["b1"].cust # bk["b2"].cust
    /\ bk["b2"].result = "success"

C9_TurnsSerialized ==
    \A w1, w2 \in Workers :
        (w1 # w2 /\ req[w1].pc \in NodePcs /\ req[w2].pc \in NodePcs)
            => req[w1].thread_id # req[w2].thread_id

\* C10: an invoke starts at most max_retries + 1 graph runs; a failed run is
\* followed by another only if its failure was classified retryable; invoke
\* re-raises only a failure that is not retryable or that of run max_retries + 1;
\* and an invoke that returned has a response
C10_RetryPolicy ==
    \A w \in Workers :
        LET r == req[w] IN
        /\ r.runs <= max_retries + 1
        /\ Len(r.fails) <= r.runs
        /\ \A i \in 1..Len(r.fails) : i < r.runs => r.fails[i]
        /\ r.pc = "raised" =>
              /\ Len(r.fails) = r.runs
              /\ ~r.fails[r.runs] \/ r.runs = max_retries + 1
        /\ r.pc = "done" => r.resp.route \in Routes
        /\ r.pc = "except" => ENABLED HandleException(w)

C10_Witness ==
    \E w \in Workers :
        /\ req[w].pc = "raised"
        /\ req[w].runs = max_retries + 1
        /\ req[w].fails[req[w].runs]

\* the rows of the classifier table: kind, status code, retryable
KindTable ==
    {<<"MODEL_QUOTA_EXCEEDED", 429, TRUE>>, <<"TRANSIENT_UPSTREAM_ERROR", 503, TRUE>>,
     <<"UPSTREAM_BAD_REQUEST", 400, FALSE>>, <<"INTERNAL_ERROR", 500, FALSE>>}

HasPart(parts, frags) == \E j \in 1..Len(parts) : parts[j] \in frags

\* C11: the classifier's result is one row of the table (kind, status code and
\* retryable flag together), for the text it was given; a text with "429" is
\* MODEL_QUOTA_EXCEEDED, a text with "Invalid argument: 400" and no quota or
\* transient signal is UPSTREAM_BAD_REQUEST, a text without signal is
\* INTERNAL_ERROR
C11_ClassifierMapping ==
    cls.pc = "classified" =>
        /\ <<cls.info.kind, cls.info.status_code, cls.info.retryable>> \in KindTable
        /\ cls.info.raw = cls.text
        /\ HasPart(cls.parts, {FRAG_429}) => cls.info.kind = "MODEL_QUOTA_EXCEEDED"
        /\ ( /\ HasPart(cls.parts, {FRAG_INVALID_ARGUMENT_400})
             /\ ~HasPart(cls.parts, QuotaFragments \cup TransientFragments) )
           => cls.info.kind = "UPSTREAM_BAD_REQUEST"
        /\ ~HasPart(cls.parts, Fragments \ PlainFragments)
           => cls.info.kind = "INTERNAL_ERROR"

C11_Witness ==
    /\ cls.pc = "classified"
    /\ cls.parts = <<FRAG_BOOM, FRAG_SEP, FRAG_INVALID_ARGUMENT_400>>
    /\ cls.info.status_code = 400

\* C12: the kind is that of the first row, in the order quota, transient, bad
\* request, of which the text holds a signal, wherever the signal stands in the
\* text and in whatever letter case
C12_ClassifierPriority ==
    cls.pc = "classified" =>
        cls.info.kind =
            IF HasPart(cls.parts, QuotaFragments) THEN "MODEL_QUOTA_EXCEEDED"
            ELSE IF HasPart(cls.parts, TransientFragments) THEN "TRANSIENT_UPSTREAM_ERROR"
            ELSE IF HasPart(cls.parts, BadRequestFragments) THEN "UPSTREAM_BAD_REQUEST"
            ELSE "INTERNAL_ERROR"

C12_Witness ==
    /\ cls.pc = "classified"
    /\ cls.parts = <<FRAG_INVALID, FRAG_TIMED_OUT, FRAG_RATE_LIMIT>>
    /\ cls.info.kind = "MODEL_QUOTA_EXCEEDED"

\* C13: an invoke whose graph run stopped at the recursion limit made no second
\* run, and the caller gets the failure under the kind STEP_LIMIT_EXCEEDED
C13_StepLimitKind ==
    \A w \in Workers :
        (req[w].pc = "raised" /\ req[w].exc = ERR_RECURSION) =>
            /\ req[w].runs = 1
            /\ req[w].http.detail.error = "STEP_LIMIT_EXCEEDED"

\* C14: with collaborators that do not fail, no graph run ends in an exception:
\* a booking turn ends with a response, within recursion_limit supersteps
C14_BookingLoopNeverErrors ==
    \A w \in Workers :
        /\ req[w].pc \notin {"except", "raised"}
        /\ req[w].pc = "done" => req[w].http.status_code = 200

\* C15: when invoke has returned, reply is the content of the last message of the
\* conversation's state (the empty text when that content is empty), route,
\* rag_meta_ids, handoff_required and handoff_reason are the values of the state,
\* and chat answers with that response
C15_ResponseFromFinalState ==
    \A w \in Workers :
        req[w].pc = "done" =>
            /\ Saved(w).messages # <<>>
            /\ req[w].resp.reply = LastMessage(Saved(w)).content
            /\ req[w].resp.route = Saved(w).route
            /\ req[w].resp.rag_meta_ids = Saved(w).rag_meta_ids
            /\ req[w].resp.handoff_required = Saved(w).handoff_required
            /\ req[w].resp.handoff_reason = Saved(w).handoff_reason
            /\ req[w].http.body = req[w].resp

C15_Witness ==
    \E w \in Workers :
        /\ req[w].pc = "done"
        /\ req[w].resp.reply = TXT_EMPTY
        /\ Len(Saved(w).messages) > 2

\* C16: when invoke has raised, chat answers with the status code of the
\* classification of the exception (429 for the quota text, 500 for the text
\* without signal) and the detail {error: kind, message}, and with no response
\* body; a 200 answer is given only for an invoke that returned
C16_FailureSurface ==
    \A w \in Workers :
        /\ req[w].pc = "raised" =>
              /\ req[w].http.status_code = classify_exception(req[w].exc).status_code
              /\ req[w].http.detail = [error |-> classify_exception(req[w].exc).kind,
                                       message |-> classify_exception(req[w].exc).message]
              /\ req[w].http.body = NoResponse
              /\ req[w].exc = ERR_QUOTA =>
                    /\ req[w].http.status_code = 429
                    /\ req[w].http.detail.error = "MODEL_QUOTA_EXCEEDED"
              /\ req[w].exc = ERR_BOOM =>
                    /\ req[w].http.status_code = 500
                    /\ req[w].http.detail.error = "INTERNAL_ERROR"
        /\ req[w].http.status_code = 200 => req[w].pc = "done"

C16_Witness ==
    \E w \in Workers :
        /\ req[w].pc = "raised"
        /\ req[w].runs = 2
        /\ req[w].http.status_code = 429

\* C17: when invoke has returned from a run of the router and the knowledge
\* lookup (the router decided kb with confidence at least the threshold), the
\* response has route kb, it has citations if the retriever returned at least one
\* document, and on a conversation with no earlier turn handoff_required is false
C17_KnowledgeScenario ==
    \A w \in Workers :
        (req[w].pc = "done" /\ req[w].path = <<"router_node", "rag_node">>) =>
            /\ req[w].resp.route = "kb"
            /\ req[w].kb_context >= 1 => req[w].resp.rag_meta_ids # <<>>
            /\ Len(SelectSeq(Saved(w).messages, IsHuman)) = req[w].runs
                  => ~req[w].resp.handoff_required

\* C18: a step of router_node or handoff_node on a state whose last message is
\* not a user message leaves every channel of the state as it was (the state
\* saved after the step is the state before it, no message added) and calls no
\* generation collaborator
C18_StagesNoOpOnGenerated ==
    [][\A w \in Workers :
          ( /\ req[w].pc \in {"router_node", "handoff_node"}
            /\ ~IsHuman(LastMessage(req[w].state))
            /\ req'[w] # req[w] )
          => /\ checkpointer'[ThreadKey(req[w].thread_id)] = req[w].state
             /\ req'[w].llm_calls = req[w].llm_calls
             /\ req'[w].pc \in NodePcs => req'[w].state = req[w].state
      ]_vars

C18_Witness ==
    \E w \in Workers :
        /\ req[w].path = <<"handoff_node">>
        /\ req[w].pc = "done"
        /\ req[w].llm_calls = 0
        /\ IsTool(LastMessage(Saved(w)))

\* C19: a graph run starts at the router and runs it once; the node after the
\* router is the one of the route (none for general); a finished run was the
\* router alone for general, with exactly one assistant message after the user
\* message, which is the reply; the router and one knowledge lookup for kb; the
\* router and one handoff stage for handoff; the router and then generator and
\* executor in turn, ending with the generator, for booking
C19_DispatchOnRoute ==
    \A w \in Workers :
        LET r == req[w]
            p == r.path
        IN /\ \A i \in 1..Len(p) : (p[i] = "router_node") <=> (i = 1)
           /\ (r.pc \in NodePcs /\ p = <<>>) => r.pc = "router_node"
           /\ (r.pc \in NodePcs /\ Len(p) = 1) =>
                 \/ r.state.route = "kb" /\ r.pc = "rag_node"
                 \/ r.state.route = "booking" /\ r.pc = "booking_llm_node"
                 \/ r.state.route = "handoff" /\ r.pc = "handoff_node"
           /\ r.pc = "done" =>
                 /\ r.resp.route = "general" =>
                       /\ p = <<"router_node">>
                       /\ Len(TurnMessages(Saved(w))) = 1
                       /\ IsAI(TurnMessages(Saved(w))[1])
                       /\ TurnMessages(Saved(w))[1].content = r.resp.reply
                 /\ r.resp.route = "kb" => p = <<"router_node", "rag_node">>
                 /\ r.resp.route = "handoff" => p = <<"router_node", "handoff_node">>
                 /\ r.resp.route = "booking" =>
                       /\ Len(p) >= 2
                       /\ p[Len(p)] = "booking_llm_node"
                       /\ \A i \in 2..Len(p) :
                             p[i] = IF i % 2 = 0 THEN "booking_llm_node" ELSE "tools"

C19_Witness ==
    \E w \in Workers :
        /\ req[w].pc = "done"
        /\ req[w].path = <<"router_node", "booking_llm_node", "tools", "booking_llm_node">>

\* C20: a retry starts a new graph run at the router, on the saved state of the
\* conversation with the same user message written to it again as the input, and
\* with no node executed yet; a run never starts at another node
C20_RetryRestartsAtRouter ==
    [][\A w \in Workers :
          /\ (req[w].pc = "except" /\ req'[w].pc \in NodePcs) =>
                /\ req'[w].pc = "router_node"
                /\ req'[w].path = <<>>
                /\ req'[w].steps = 0
                /\ req'[w].runs = req[w].runs + 1
                /\ Len(req'[w].state.messages)
                      = Len(checkpointer[ThreadKey(req[w].thread_id)].messages) + 1
                /\ IsHuman(LastMessage(req'[w].state))
                /\ LastMessage(req'[w].state).content = UserMessage(req[w].thread_id)
          /\ (req'[w].pc \in NodePcs /\ req'[w].path = <<>>) => req'[w].pc = "router_node"
      ]_vars

C20_Witness ==
    \E w \in Workers :
        /\ req[w].runs = 2
        /\ req[w].pc = "router_node"
        /\ req[w].path = <<>>
        /\ IsTool(req[w].state.messages[Len(req[w].state.messages) - 1])

IsPrefix(s, t) == Len(s) <= Len(t) /\ SubSeq(t, 1, Len(s)) = s

\* C21: the messages saved for a thread only grow: in every step the messages
\* saved before are a prefix of those saved after, and when an invoke returns,
\* the saved messages are those the thread held when the invoke began, then the
\* user message, then at least one assistant message among what follows
C21_MessagesAppendOnly ==
    [][ /\ \A k \in ThreadIds :
              IsPrefix(checkpointer[k].messages, checkpointer'[k].messages)
        /\ \A w \in Workers :
              (req[w].pc # "done" /\ req'[w].pc = "done")
                  => LET msgs == checkpointer'[ThreadKey(req'[w].thread_id)].messages
                         base == req'[w].base
                     IN /\ Len(msgs) >= base + 2
                        /\ IsHuman(msgs[base + 1])
                        /\ \E i \in (base + 2)..Len(msgs) : IsAI(msgs[i]) ]_vars

\* C22: the step of the Tool-Executor appends to messages, after the generated
\* message with the tool calls, one result for every one of its tool calls, in
\* their order, each the answer of the store to that call, and raises
\* booking_tool_steps by exactly one; control then passes to the
\* Booking-Generator, whose step appends its next message after these results
C22_ResultsBeforeGenerator ==
    [][ \A w \in Workers :
          LET r == req[w]
              msgs == r.state.messages
              msgs2 == req'[w].state.messages
          IN /\ (r.pc = "tools" /\ req'[w] # r)
                  => LET calls == LastMessage(r.state).tool_calls
                         n == Len(calls)
                     IN /\ req'[w].pc = "booking_llm_node"
                        /\ IsAI(LastMessage(r.state)) /\ n >= 1
                        /\ Len(msgs2) = Len(msgs) + n
                        /\ IsPrefix(msgs, msgs2)
                        /\ \A i \in 1..n :
                              LET key == KeyOf(calls[i].args)
                                  res == msgs2[Len(msgs) + i]
                              IN /\ IsTool(res)
                                 /\ res.content =
                                      IF key \notin DOMAIN appointments THEN MSG_NOT_FOUND
                                      ELSE IF /\ appointments[key].status = "free"
                                              /\ \A j \in 1..(i - 1) :
                                                    KeyOf(calls[j].args) # key
                                      THEN MSG_CONFIRMED
                                      ELSE MSG_BOOKED
                        /\ req'[w].state.booking_tool_steps = r.state.booking_tool_steps + 1
             /\ (r.pc = "booking_llm_node" /\ r.path # <<>>
                    /\ r.path[Len(r.path)] = "tools" /\ req'[w].pc \in {"tools", "done"})
                  => LET saved == checkpointer'[ThreadKey(r.thread_id)].messages
                     IN /\ Len(saved) = Len(msgs) + 1
                        /\ IsPrefix(msgs, saved)
                        /\ IsAI(saved[Len(saved)])
                        /\ IsTool(msgs[Len(msgs)]) ]_vars

\* a round that ran two tool calls of one message has returned to the generator
C22_Witness ==
    \E w \in Workers :
        LET msgs == req[w].state.messages
            n == Len(msgs)
        IN /\ req[w].pc = "booking_llm_node"
           /\ n >= 3
           /\ IsAI(msgs[n - 2]) /\ Len(msgs[n - 2].tool_calls) = 2
           /\ IsTool(msgs[n - 1]) /\ IsTool(msgs[n])
           /\ msgs[n - 1].content = MSG_NOT_FOUND
           /\ msgs[n].content = MSG_CONFIRMED
           /\ req[w].state.booking_tool_steps = 1

\* the elements of a sequence
Range(s) == {s[i] : i \in 1..Len(s)}

\* C23: no step adds or removes a slot or changes a booked slot (its status,
\* customer name and phone stay); the UPDATE of book slot on a slot that is
\* booked or has no row leaves every slot unchanged and does not give success,
\* and success is given only for a slot that existed and was free, which is then
\* booked for the caller; a call for a slot that was already booked when it
\* began returns booked, a call for a slot with no row returns not_found; and
\* for every booked slot check slot answers booked and list available slots
\* does not contain its time
C23_BookNonFreeChangesNothing ==
    [][ /\ DOMAIN appointments' = DOMAIN appointments
        /\ \A k \in DOMAIN appointments :
              /\ appointments[k].status = "booked" => appointments'[k] = appointments[k]
              /\ appointments'[k].status = "booked"
                    => /\ core_check_slot_availability(appointments', k) = "booked"
                       /\ k[3] \notin Range(core_list_available_slots(appointments', k[1], k[2]))
        /\ \A b \in Bookers :
              LET c == bk[b]
                  c2 == bk'[b]
                  was_free == c.key \in DOMAIN appointments
                              /\ appointments[c.key].status = "free"
              IN /\ (c.pc = "update" /\ c2.pc # "update")
                      => /\ ~was_free => (appointments' = appointments /\ c2.result # "success")
                         /\ c2.result = "success"
                               => /\ was_free
                                  /\ appointments'[c.key] =
                                        [status |-> "booked", customer_name |-> c.cust[1],
                                         phone |-> c.cust[2]]
                 /\ (c.pc # "done" /\ c2.pc = "done")
                      => /\ c.key \notin DOMAIN appointments => c2.result = "not_found"
                         /\ (c.key \in DOMAIN appointments /\ ~c.saw_free)
                               => c2.result = "booked"
                         /\ c2.result \in {"success", "booked", "not_found"} ]_vars

\* one caller was refused a slot that another customer had booked before the
\* call began, and a call for a slot with no row has returned
C23_Witness ==
    \E b1, b2 \in Bookers :
        /\ bk[b1].pc = "done" /\ bk[b1].result = "booked" /\ ~bk[b1].saw_free
        /\ appointments[bk[b1].key].status = "booked"
        /\ appointments[bk[b1].key].customer_name # bk[b1].cust[1]
        /\ bk[b2].pc = "done" /\ bk[b2].result = "not_found"
        /\ bk[b2].key \notin DOMAIN appointments

\* C24: in the knowledge stage the generation call is made only after the
\* similarity search has returned, and the retrieval makes no generation call;
\* the step of the generation call makes exactly one call, appends exactly one
\* assistant message, sets rag_meta_ids to the ids of the generated meta entries
\* that are not empty, in their order, and ends the graph run: rag_node ran once
\* in it
C24_KnowledgeStageOnce ==
    [][ \A w \in Workers :
          LET r == req[w]
              r2 == req'[w]
          IN /\ (r.pc = "rag_node" /\ r2.pc = "rag_node" /\ r2 # r)
                  => /\ r.kb_context < 0 /\ r2.kb_context >= 0
                     /\ r2.llm_calls = r.llm_calls
                     /\ r2.state = r.state
                     /\ UNCHANGED checkpointer
             /\ (r.pc = "rag_node" /\ r2.pc \notin {"rag_node", "except"})
                  => LET saved == checkpointer'[ThreadKey(r.thread_id)]
                         ids == saved.rag_meta_ids
                         idx == {i \in 1..Len(r2.meta) : r2.meta[i] # <<>>}
                         n == Len(r.state.messages)
                     IN /\ r.kb_context >= 0
                        /\ r2.llm_calls = r.llm_calls + 1
                        /\ Len(saved.messages) = n + 1
                        /\ IsPrefix(r.state.messages, saved.messages)
                        /\ IsAI(saved.messages[n + 1])
                        /\ saved.messages[n + 1].tool_calls = <<>>
                        /\ Len(ids) = Cardinality(idx)
                        /\ \A i \in idx : ids[Cardinality({j \in idx : j <= i})] = r2.meta[i]
                        /\ r2.resp.rag_meta_ids = ids
                        /\ r2.pc = "done"
                        /\ r2.path = <<"router_node", "rag_node">> ]_vars

\* a knowledge turn has returned whose generated meta had an entry without id
C24_Witness ==
    \E w \in Workers :
        /\ req[w].pc = "done"
        /\ req[w].path = <<"router_node", "rag_node">>
        /\ req[w].kb_context >= 0
        /\ req[w].meta = <<CITE_A, TXT_EMPTY, CITE_B>>
        /\ Saved(w).rag_meta_ids = <<CITE_A, CITE_B>>

\* C25: in the state saved for a thread and in the response of an invoke,
\* handoff_reason is empty unless handoff_required is true; the step of
\* handoff_node on a user message saves the decision's reason when the decision
\* requires a handoff and the empty text when it does not; and no step other
\* than one of handoff_node changes either field
C25_ReasonOnlyWithHandoff ==
    [][ /\ \A k \in ThreadIds :
              LET s == checkpointer[k]
                  s2 == checkpointer'[k]
              IN /\ s2.handoff_reason # TXT_EMPTY => s2.handoff_required
                 /\ ( \/ s2.handoff_required # s.handoff_required
                      \/ s2.handoff_reason # s.handoff_reason )
                      => \E w \in Workers :
                            /\ req[w].pc = "handoff_node"
                            /\ ThreadKey(req[w].thread_id) = k
                            /\ req'[w].pc = "done"
        /\ \A w \in Workers :
              /\ (req[w].pc = "handoff_node" /\ req'[w].pc = "done")
                    => LET s2 == checkpointer'[ThreadKey(req[w].thread_id)]
                       IN s2.handoff_reason = IF s2.handoff_required THEN REASON
                                              ELSE TXT_EMPTY
              /\ (req[w].pc # "done" /\ req'[w].pc = "done")
                    => ( req'[w].resp.handoff_reason # TXT_EMPTY
                           => req'[w].resp.handoff_required ) ]_vars

\* a handoff turn whose decision required no handoff has returned on a thread
\* where an earlier decision had required one
C25_Witness ==
    \E w \in Workers :
        /\ req[w].pc = "done"
        /\ req[w].path = <<"router_node", "handoff_node">>
        /\ req[w].base > 0
        /\ ~Saved(w).handoff_required
        /\ Saved(w).handoff_reason = TXT_EMPTY
        /\ ~req[w].resp.handoff_required

\* C26: in a UI session a message is sent to the backend only while the session
\* is not locked and only for a thread_id for which no response with
\* handoff_required = true was received; and a locked session is unlocked only
\* by a step that assigns a thread_id that is new (not the one before, and none
\* for which such a response was received) and empties the displayed messages
C26_HandoffLock ==
    [][ /\ ui'.posts > ui.posts
              => (~ui.handoff_locked /\ ui.thread_id \notin ui.flagged)
        /\ (ui.handoff_locked /\ ~ui'.handoff_locked)
              => /\ ui'.thread_id # ui.thread_id
                 /\ ui'.thread_id \notin ui.flagged
                 /\ ui'.messages = <<>> ]_vars

\* C27: an invoke that returned after a retry left in the thread's messages,
\* after those the thread held when the invoke began, exactly one user message,
\* as an invoke that succeeds at once does; and no tool call executed in a
\* failed graph run of an invoke is executed again in a later run of that invoke
C27_RetryLikeFirstAttempt ==
    \A w \in Workers :
        /\ req[w].pc = "done"
              => LET msgs == Saved(w).messages
                 IN Len(SelectSeq(SubSeq(msgs, req[w].base + 1, Len(msgs)), IsHuman)) = 1
        /\ req[w].ran \cap req[w].ran_failed = {}

\* C28: when an invoke has returned, every assistant message of the thread's
\* messages that carries tool calls is followed at once by one result for each
\* of them; so the last message, from which the reply is taken, carries no
\* tool call
C28_NoUnexecutedProposal ==
    \A w \in Workers :
        req[w].pc = "done"
            => LET msgs == Saved(w).messages
               IN \A i \in 1..Len(msgs) :
                     (IsAI(msgs[i]) /\ msgs[i].tool_calls # <<>>)
                         => /\ i + Len(msgs[i].tool_calls) <= Len(msgs)
                            /\ \A j \in 1..Len(msgs[i].tool_calls) : IsTool(msgs[i + j])

\* C29: at most one GraphService is ever constructed, and every call of
\* get_graph_service that has returned got the same instance
C29_OneGraphService ==
    /\ svc.created <= 1
    /\ \A w1, w2 \in Workers :
          (svc.caller[w1].pc = "done" /\ svc.caller[w2].pc = "done")
              => svc.caller[w1].got = svc.caller[w2].got

====
